---- MODULE Spec2Model ----
(***************************************************************************)
(* Model of import_adstat.py: one scheduled invocation of main() after     *)
(* another against the persistent table ad_campaigns.                      *)
(*                                                                         *)
(* The table is a bag (multiset) of rows, so that two rows with the same   *)
(* natural key would be two rows: the surrogate id column is what keeps    *)
(* them apart in the database, the bag's multiplicity keeps them apart     *)
(* here.  A row carries the natural key (date, unit, ad_id) and `spent`,   *)
(* which stands for each of the 27 non-key columns: the statement treats   *)
(* every one of them alike (col = EXCLUDED.col).  Key columns and metric   *)
(* values are drawn from values the column types store exactly; a key      *)
(* column that is NULL is outside the model.                               *)
(***************************************************************************)
EXTENDS Integers, Sequences, FiniteSets, Bags

VARIABLES
    table,        \* rows of ad_campaigns, a bag
    dbExists,     \* the database adstat_db exists
    pc,           \* position of the process in main()
    attempts,     \* times the body of main() was entered by this process
    data,         \* result of fetch_data
    batch_size,   \* save_data's batch_size
    i,            \* save_data's loop variable
    k,            \* rows of the current batch executemany has executed
    tableBefore,  \* the table when save_data was entered
    saveError,    \* save_data's except clause ran
    mainError,    \* main's except clause ran
    fetchFailed,  \* fetch_data raised RequestException
    exitStatus    \* the process's exit status, -1 while none

vars == <<table, dbExists, pc, attempts, data, batch_size, i, k, tableBefore,
          saveError, mainError, fetchFailed, exitStatus>>

(* Bounds of the model. *)
MaxLen == 3

(* The report's groups: ad 1 ran on both dates, ad 2 on date 2 only. *)
Ran == {<<1, 1, 1>>, <<2, 1, 1>>, <<2, 1, 2>>}

Dates == {key[1] : key \in Ran}
Units == {key[2] : key \in Ran}
AdIds == {key[3] : key \in Ran}
Spents == {5, 7}

DefaultBatchSize == 1000

BatchSizes == {1, 2, DefaultBatchSize}

Rows ==
    {r \in [date : Dates, unit : Units, ad_id : AdIds, spent : Spents] :
        <<r.date, r.unit, r.ad_id>> \in Ran}

FetchResults == UNION {[1..n -> Rows] : n \in 0..MaxLen}

Min(a, b) == IF a < b THEN a ELSE b

(* UNIQUE (date, unit, ad_id) and ON CONFLICT (date, unit, ad_id). *)
NaturalKey(r) == <<r.date, r.unit, r.ad_id>>

Keys == {NaturalKey(r) : r \in Rows}

(* Number of rows of t, duplicates counted, that carry the key key. *)
RECURSIVE SumCounts(_, _)
SumCounts(t, S) ==
    IF S = {} THEN 0
    ELSE LET r == CHOOSE x \in S : TRUE
         IN  t[r] + SumCounts(t, S \ {r})

KeyCount(t, key) == SumCounts(t, {r \in BagToSet(t) : NaturalKey(r) = key})

(* Faulty variant: no existing row ever conflicts. *)
ConflictRowsNone(t, r) == {}

(* The existing rows the arbiter constraint finds for the row r. *)
ConflictRows(t, r) == {x \in BagToSet(t) : NaturalKey(x) = NaturalKey(r)}

(* The bag t without the rows in S. *)
Without(t, S) == [x \in (BagToSet(t) \ S) |-> t[x]]

(* Faulty variant: ON CONFLICT DO NOTHING. *)
UpsertKeepOld(t, r) ==
    IF ConflictRows(t, r) = {} THEN t (+) SetToBag({r}) ELSE t

(* Faulty variant: the metric is added to the stored one. *)
UpsertAccumulate(t, r) ==
    LET old == ConflictRows(t, r)
    IN  IF old = {} THEN t (+) SetToBag({r})
        ELSE Without(t, old) (+)
             SetToBag({[x EXCEPT !.spent = x.spent + r.spent] : x \in old})

(* One execution of INSERT ... ON CONFLICT (date, unit, ad_id) DO UPDATE   *)
(* SET col = EXCLUDED.col for the parameter row r: every row the key       *)
(* conflicts with takes r's non-key columns, else r is inserted.           *)
Upsert(t, r) ==
    LET old == ConflictRows(t, r)
    IN  IF old = {} THEN t (+) SetToBag({r})
        ELSE Without(t, old) (+)
             SetToBag({[x EXCEPT !.spent = r.spent] : x \in old})

(* Faulty variant: the slice loses its last row. *)
BatchShort(d, start, bs) ==
    SubSeq(d, start + 1, Min(start + bs - 1, Len(d)))

(* batch = data[i: i + batch_size], start counted from 0. *)
Batch(d, start, bs) == SubSeq(d, start + 1, Min(start + bs, Len(d)))

(* cursor.executemany(statement, batch) run to its end: the statement is   *)
(* executed once per row, in order.                                        *)
RECURSIVE ExecuteMany(_, _)
ExecuteMany(t, batch) ==
    IF batch = <<>> THEN t
    ELSE ExecuteMany(Upsert(t, Head(batch)), Tail(batch))

(* for i in range(0, len(data), batch_size), from i = start, no error. *)
RECURSIVE SaveLoop(_, _, _, _)
SaveLoop(t, d, start, bs) ==
    IF start >= Len(d) THEN t
    ELSE SaveLoop(ExecuteMany(t, Batch(d, start, bs)), d, start + bs, bs)

(* save_data(cursor, table_name, data, batch_size) without an error. *)
SaveData(t, d, bs) == SaveLoop(t, d, 0, bs)

(* The batches of the loop, in order. *)
RECURSIVE Batches(_, _, _)
Batches(d, start, bs) ==
    IF start >= Len(d) THEN <<>>
    ELSE <<Batch(d, start, bs)>> \o Batches(d, start + bs, bs)

RECURSIVE Concat(_)
Concat(ss) == IF ss = <<>> THEN <<>> ELSE Head(ss) \o Concat(Tail(ss))

----------------------------------------------------------------------------
Init ==
    /\ table = EmptyBag
    /\ dbExists = FALSE
    /\ pc = "idle"
    /\ attempts = 0
    /\ data = <<>>
    /\ batch_size = DefaultBatchSize
    /\ i = 0
    /\ k = 0
    /\ tableBefore = EmptyBag
    /\ saveError = FALSE
    /\ mainError = FALSE
    /\ fetchFailed = FALSE
    /\ exitStatus = -1

(* The scheduler runs the script: main() enters its try block, once. *)
Start ==
    /\ pc \in {"idle", "done"}
    /\ pc' = "create_database"
    /\ attempts' = 1
    /\ data' = <<>>
    /\ batch_size' = DefaultBatchSize
    /\ i' = 0
    /\ k' = 0
    /\ tableBefore' = table
    /\ saveError' = FALSE
    /\ mainError' = FALSE
    /\ fetchFailed' = FALSE
    /\ exitStatus' = -1
    /\ UNCHANGED <<table, dbExists>>

(* create_database: creates the database when it is absent. *)
CreateDatabase ==
    /\ pc = "create_database"
    /\ dbExists' = TRUE
    /\ pc' = "connect"
    /\ UNCHANGED <<table, attempts, data, batch_size, i, k, tableBefore,
                   saveError, mainError, fetchFailed, exitStatus>>

(* create_database: psycopg2.Error is caught and logged there. *)
CreateDatabaseFails ==
    /\ pc = "create_database"
    /\ pc' = "connect"
    /\ UNCHANGED <<table, dbExists, attempts, data, batch_size, i, k,
                   tableBefore, saveError, mainError, fetchFailed, exitStatus>>

(* psycopg2.connect with db_config; autocommit = True; cursor(). *)
Connect ==
    /\ pc = "connect"
    /\ dbExists
    /\ pc' = "create_table"
    /\ UNCHANGED <<table, dbExists, attempts, data, batch_size, i, k,
                   tableBefore, saveError, mainError, fetchFailed, exitStatus>>

(* psycopg2.connect raises: main's except logs it and main returns. *)
ConnectFails ==
    /\ pc = "connect"
    /\ mainError' = TRUE
    /\ pc' = "done"
    /\ exitStatus' = 0
    /\ UNCHANGED <<table, dbExists, attempts, data, batch_size, i, k,
                   tableBefore, saveError, fetchFailed>>

(* create_table: CREATE TABLE / INDEX IF NOT EXISTS. *)
CreateTable ==
    /\ pc = "create_table"
    /\ pc' = "fetch"
    /\ UNCHANGED <<table, dbExists, attempts, data, batch_size, i, k,
                   tableBefore, saveError, mainError, fetchFailed, exitStatus>>

(* create_table: psycopg2.Error, sys.exit(1). *)
CreateTableFails ==
    /\ pc = "create_table"
    /\ pc' = "done"
    /\ exitStatus' = 1
    /\ UNCHANGED <<table, dbExists, attempts, data, batch_size, i, k,
                   tableBefore, saveError, mainError, fetchFailed>>

(* fetch_data returns the report's rows. *)
Fetch ==
    /\ pc = "fetch"
    /\ \E d \in FetchResults : data' = d
    /\ pc' = "save_data"
    /\ UNCHANGED <<table, dbExists, attempts, batch_size, i, k, tableBefore,
                   saveError, mainError, fetchFailed, exitStatus>>

(* fetch_data: requests.RequestException, sys.exit(1). *)
FetchFails ==
    /\ pc = "fetch"
    /\ fetchFailed' = TRUE
    /\ pc' = "done"
    /\ exitStatus' = 1
    /\ UNCHANGED <<table, dbExists, attempts, data, batch_size, i, k,
                   tableBefore, saveError, mainError>>

(* Faulty variant: the table is emptied before the rows are written. *)
SaveBeginWipe ==
    /\ pc = "save_data"
    /\ \E bs \in BatchSizes : batch_size' = bs
    /\ i' = 0
    /\ k' = 0
    /\ tableBefore' = table
    /\ table' = EmptyBag
    /\ pc' = "loop"
    /\ UNCHANGED <<dbExists, attempts, data, saveError, mainError,
                   fetchFailed, exitStatus>>

(* Faulty variant: the rows of every date of the fetch are deleted first. *)
SaveBeginDeleteDates ==
    /\ pc = "save_data"
    /\ \E bs \in BatchSizes : batch_size' = bs
    /\ i' = 0
    /\ k' = 0
    /\ tableBefore' = table
    /\ table' = Without(table, {x \in BagToSet(table) :
                     \E p \in 1..Len(data) : data[p].date = x.date})
    /\ pc' = "loop"
    /\ UNCHANGED <<dbExists, attempts, data, saveError, mainError,
                   fetchFailed, exitStatus>>

(* save_data is entered: no statement is executed before the loop.  main   *)
(* passes no batch_size (1000); the other sizes are save_data's parameter. *)
SaveBegin ==
    /\ pc = "save_data"
    /\ \E bs \in BatchSizes : batch_size' = bs
    /\ i' = 0
    /\ k' = 0
    /\ tableBefore' = table
    /\ pc' = "loop"
    /\ UNCHANGED <<table, dbExists, attempts, data, saveError, mainError,
                   fetchFailed, exitStatus>>

(* executemany executes the statement for the next row of the batch; the   *)
(* connection is in autocommit mode, so the row is committed at once.      *)
ExecuteRow ==
    /\ pc = "loop"
    /\ i < Len(data)
    /\ k < Len(Batch(data, i, batch_size))
    /\ table' = Upsert(table, Batch(data, i, batch_size)[k + 1])
    /\ k' = k + 1
    /\ UNCHANGED <<dbExists, pc, attempts, data, batch_size, i, tableBefore,
                   saveError, mainError, fetchFailed, exitStatus>>

(* Faulty variant: the error undoes what the call has written. *)
ExecuteFailsRollback ==
    /\ pc = "loop"
    /\ i < Len(data)
    /\ k < Len(Batch(data, i, batch_size))
    /\ saveError' = TRUE
    /\ table' = tableBefore
    /\ pc' = "close"
    /\ UNCHANGED <<dbExists, attempts, data, batch_size, i, k,
                   tableBefore, mainError, fetchFailed, exitStatus>>

(* The statement for the next row raises psycopg2.Error: save_data's       *)
(* except clause logs it and save_data returns to main.                    *)
ExecuteFails ==
    /\ pc = "loop"
    /\ i < Len(data)
    /\ k < Len(Batch(data, i, batch_size))
    /\ saveError' = TRUE
    /\ pc' = "close"
    /\ UNCHANGED <<table, dbExists, attempts, data, batch_size, i, k,
                   tableBefore, mainError, fetchFailed, exitStatus>>

(* executemany returned: the batch is logged and the loop advances. *)
BatchDone ==
    /\ pc = "loop"
    /\ i < Len(data)
    /\ k = Len(Batch(data, i, batch_size))
    /\ i' = i + batch_size
    /\ k' = 0
    /\ UNCHANGED <<table, dbExists, pc, attempts, data, batch_size,
                   tableBefore, saveError, mainError, fetchFailed, exitStatus>>

(* range(0, len(data), batch_size) is exhausted: save_data returns. *)
LoopExit ==
    /\ pc = "loop"
    /\ i >= Len(data)
    /\ pc' = "close"
    /\ UNCHANGED <<table, dbExists, attempts, data, batch_size, i, k,
                   tableBefore, saveError, mainError, fetchFailed, exitStatus>>

(* cursor.close(); connection.close(); main returns. *)
Close ==
    /\ pc = "close"
    /\ pc' = "done"
    /\ exitStatus' = 0
    /\ UNCHANGED <<table, dbExists, attempts, data, batch_size, i, k,
                   tableBefore, saveError, mainError, fetchFailed>>

Next ==
    \/ Start
    \/ CreateDatabase
    \/ CreateDatabaseFails
    \/ Connect
    \/ ConnectFails
    \/ CreateTable
    \/ CreateTableFails
    \/ Fetch
    \/ FetchFails
    \/ SaveBegin
    \/ ExecuteRow
    \/ ExecuteFails
    \/ BatchDone
    \/ LoopExit
    \/ Close

Spec == Init /\ [][Next]_vars

----------------------------------------------------------------------------
(* Rows save_data has executed so far, or had executed when it stopped. *)
Executed == Min(i + k, Len(data))

(* Copies of the row r in the bag t. *)
Copies(t, r) == IF r \in BagToSet(t) THEN t[r] ELSE 0

(* The last of the first n rows of d that carries the key key. *)
LastOcc(d, n, key) ==
    d[CHOOSE q \in 1..n :
        /\ NaturalKey(d[q]) = key
        /\ \A q2 \in (q + 1)..n : NaturalKey(d[q2]) # key]

(* The key key has exactly one row in t, and it is the row r. *)
StoredAs(t, key, r) == KeyCount(t, key) = 1 /\ Copies(t, r) = 1

SaveReturnedOk == pc = "close" /\ ~saveError

SameDate(d) == \A p \in 1..Len(d) : d[p].date = d[1].date

(* C1: after a save_data that completed without error on a non-empty      *)
(* fetch whose rows are all dated D, the table's rows dated D are exactly  *)
(* the fetched rows, one per natural key; a stale row dated D is gone.     *)
C1_FullDayReplacement ==
    (SaveReturnedOk /\ data # <<>> /\ SameDate(data)) =>
        /\ \A r \in BagToSet(table) :
              r.date = data[1].date =>
                  \E p \in 1..Len(data) : NaturalKey(data[p]) = NaturalKey(r)
        /\ \A p \in 1..Len(data) :
              StoredAs(table, NaturalKey(data[p]),
                       LastOcc(data, Len(data), NaturalKey(data[p])))

C3_EmptyFetchNoOp ==
    (pc \in {"loop", "close"} /\ data = <<>>) => table = tableBefore

C3_Witness ==
    /\ SaveReturnedOk
    /\ data = <<>>
    /\ table # EmptyBag

C5_BatchSizeInvariant ==
    SaveReturnedOk =>
        \A bs \in {DefaultBatchSize, 1} \cup ({Len(data)} \ {0}) :
            /\ SaveData(tableBefore, data, bs) = table
            /\ Concat(Batches(data, 0, bs)) = data

C5_Witness ==
    /\ SaveReturnedOk
    /\ batch_size = 2
    /\ Len(data) = 3
    /\ NaturalKey(data[1]) = NaturalKey(data[3])
    /\ data[1].spent # data[3].spent

(* C6: when the fetch fails, the process has made 10 attempts by the time  *)
(* it ends, and the table is as it was.                                    *)
C6_RetryExhaustion ==
    (pc = "done" /\ fetchFailed) => (attempts = 10 /\ table = tableBefore)

C8_WriteFailureSurfaced == (pc = "done" /\ saveError) => mainError

(* C9: after a write failure in batch N >= 2, until the process ends,      *)
(* every key of the batches 1..N-1 has its one row in the table, with the  *)
(* values of the last row executed for it.                                 *)
C9_BatchesDurable ==
    (pc \in {"close", "done"} /\ saveError /\ i >= batch_size) =>
        \A p \in 1..i :
            StoredAs(table, NaturalKey(data[p]),
                     LastOcc(data, Executed, NaturalKey(data[p])))

C9_Witness ==
    /\ pc = "done"
    /\ saveError
    /\ i >= batch_size
    /\ i >= 2
    /\ table # tableBefore

(* C10: a row that was in the table when save_data was entered and whose   *)
(* date is not the first input row's date is never removed: while no       *)
(* executed input row has its key it is in the table unchanged, otherwise  *)
(* its key still has its one row, holding the last executed input row.     *)
C10_DateScoped ==
    (pc \in {"loop", "close"} /\ data # <<>>) =>
        \A r \in BagToSet(tableBefore) :
            r.date # data[1].date =>
                IF \E p \in 1..Executed : NaturalKey(data[p]) = NaturalKey(r)
                THEN StoredAs(table, NaturalKey(r),
                              LastOcc(data, Executed, NaturalKey(r)))
                ELSE Copies(table, r) = Copies(tableBefore, r)

C10_Witness ==
    /\ SaveReturnedOk
    /\ Len(data) >= 2
    /\ ~SameDate(data)
    /\ \E r \in BagToSet(tableBefore) :
          /\ r.date # data[1].date
          /\ \E p \in 1..Len(data) : data[p].date = r.date
          /\ \A p \in 1..Len(data) : NaturalKey(data[p]) # NaturalKey(r)
          /\ Copies(table, r) = 1

====
